---- MODULE Spec2Model ----
(***************************************************************************)
(* Clockify MCP server (src/src/index.ts): the tool catalogue, the         *)
(* CallTool dispatcher, the handlers and makeRequest, as a state machine   *)
(* over tool invocations and the answers of the remote API.                *)
(***************************************************************************)
EXTENDS Integers, Sequences, FiniteSets, TLC

VARIABLES config, hostSlots, inv, listed, contacted

vars == <<config, hostSlots, inv, listed, contacted>>

(***************************************************************************)
(* Bounds of the model.                                                    *)
(***************************************************************************)
\* invocations the host may keep in flight at once in the concurrent runs
MaxInFlight == 2

(***************************************************************************)
(* JSON values of an argument bag.  Every value has the same record shape; *)
(* t is the JavaScript type, s the string, n the number, b the boolean.    *)
(***************************************************************************)
Str(x) == [t |-> "string", s |-> x, n |-> 0, b |-> FALSE]

Num(x) == [t |-> "number", s |-> "", n |-> x, b |-> FALSE]

Bool(x) == [t |-> "boolean", s |-> "", n |-> 0, b |-> x]

Null == [t |-> "null", s |-> "", n |-> 0, b |-> FALSE]

Undefined == [t |-> "undefined", s |-> "", n |-> 0, b |-> FALSE]

\* an array of strings, named by its comma-joined text (Array.prototype.toString)
List(x) == [t |-> "array", s |-> x, n |-> 0, b |-> FALSE]

\* JavaScript truthiness, as used by `!args?.key`, `a || b` and `a ? b : c`
Truthy(v) ==
    CASE v.t = "string" -> v.s # ""
      [] v.t = "number" -> v.n # 0
      [] v.t = "boolean" -> v.b
      [] v.t = "array" -> TRUE
      [] OTHER -> FALSE

\* decimal text of the numbers the model uses (template literal, String(n))
NumText(n) ==
    CASE n = 0 -> "0"
      [] n = 1 -> "1"
      [] n = 10 -> "10"
      [] n = 50 -> "50"
      [] n = 200 -> "200"
      [] n = 204 -> "204"
      [] n = 404 -> "404"
      [] n = 500 -> "500"
      [] n = 1000 -> "1000"
      [] n = 5000 -> "5000"
      [] OTHER -> "NaN"

\* String(value) and `${value}`
ToStr(v) ==
    CASE v.t = "string" -> v.s
      [] v.t = "number" -> NumText(v.n)
      [] v.t = "boolean" -> IF v.b THEN "true" ELSE "false"
      [] v.t = "array" -> v.s
      [] v.t = "null" -> "null"
      [] OTHER -> "undefined"

(***************************************************************************)
(* An argument bag is a sequence of [k, v] pairs with distinct keys, in    *)
(* insertion order.  request.params.arguments may be missing altogether:   *)
(* a call is [name, hasArgs, args].                                        *)
(***************************************************************************)
Keys(args) == {args[j].k : j \in 1..Len(args)}

\* args.key (undefined when the key is not in the bag)
Get(args, key) ==
    IF key \in Keys(args)
    THEN (CHOOSE p \in {args[j] : j \in 1..Len(args)} : p.k = key).v
    ELSE Undefined

\* a rest that still has the named keys
RestKeepAll(args, keys) == args

\* const { k1, k2, ...rest } = args : the bag without the named keys
Rest(args, keys) == SelectSeq(args, LAMBDA p : p.k \notin keys)

(***************************************************************************)
(* The catalogue: ListToolsRequestSchema handler.                          *)
(***************************************************************************)
ToolNames ==
    <<"get_current_user", "get_workspaces", "get_workspace_users",
      "create_time_entry", "get_time_entries", "update_time_entry",
      "delete_time_entry", "stop_time_entry",
      "create_project", "get_projects", "get_project", "update_project",
      "delete_project",
      "create_task", "get_tasks", "get_task", "update_task", "delete_task",
      "create_client", "get_clients", "update_client", "delete_client",
      "create_tag", "get_tags", "update_tag", "delete_tag",
      "get_detailed_report", "get_summary_report">>

Catalogue == {ToolNames[j] : j \in 1..Len(ToolNames)}

\* inputSchema.required of each descriptor
Required(name) ==
    CASE name \in {"get_current_user", "get_workspaces"} -> {}
      [] name = "get_workspace_users" -> {"workspaceId"}
      [] name = "create_time_entry" -> {"workspaceId", "start"}
      [] name = "get_time_entries" -> {"workspaceId"}
      [] name \in {"update_time_entry", "delete_time_entry"} ->
            {"workspaceId", "timeEntryId"}
      [] name = "stop_time_entry" -> {"workspaceId", "userId"}
      [] name = "create_project" -> {"workspaceId", "name"}
      [] name = "get_projects" -> {"workspaceId"}
      [] name \in {"get_project", "update_project", "delete_project"} ->
            {"workspaceId", "projectId"}
      [] name = "create_task" -> {"workspaceId", "projectId", "name"}
      [] name = "get_tasks" -> {"workspaceId", "projectId"}
      [] name \in {"get_task", "update_task", "delete_task"} ->
            {"workspaceId", "projectId", "taskId"}
      [] name = "create_client" -> {"workspaceId", "name"}
      [] name = "get_clients" -> {"workspaceId"}
      [] name \in {"update_client", "delete_client"} ->
            {"workspaceId", "clientId"}
      [] name = "create_tag" -> {"workspaceId", "name"}
      [] name = "get_tags" -> {"workspaceId"}
      [] name \in {"update_tag", "delete_tag"} -> {"workspaceId", "tagId"}
      [] name \in {"get_detailed_report", "get_summary_report"} ->
            {"workspaceId", "dateRangeStart", "dateRangeEnd"}
      [] OTHER -> {}

(***************************************************************************)
(* The dispatcher: the switch of the CallToolRequestSchema handler.        *)
(***************************************************************************)
\* Routed with the case of get_tags left out
RoutedWithoutGetTags == Catalogue \ {"get_tags"}

\* the names the switch has a case for
Routed ==
    {"get_current_user", "get_workspaces", "get_workspace_users",
     "create_time_entry", "get_time_entries", "update_time_entry",
     "delete_time_entry", "stop_time_entry",
     "create_project", "get_projects", "get_project", "update_project",
     "delete_project",
     "create_task", "get_tasks", "get_task", "update_task", "delete_task",
     "create_client", "get_clients", "update_client", "delete_client",
     "create_tag", "get_tags", "update_tag", "delete_tag",
     "get_detailed_report", "get_summary_report"}

\* the arguments whose truthiness a case tests before it calls the handler
Checked(name) ==
    CASE name \in {"get_workspace_users", "create_time_entry",
                   "get_time_entries", "create_project", "get_projects",
                   "create_client", "get_clients", "create_tag", "get_tags"} ->
            {"workspaceId"}
      [] name \in {"update_time_entry", "delete_time_entry"} ->
            {"workspaceId", "timeEntryId"}
      [] name = "stop_time_entry" -> {"workspaceId", "userId"}
      [] name \in {"get_project", "update_project", "delete_project",
                   "create_task", "get_tasks"} ->
            {"workspaceId", "projectId"}
      [] name \in {"get_task", "update_task", "delete_task"} ->
            {"workspaceId", "projectId", "taskId"}
      [] name \in {"update_client", "delete_client"} ->
            {"workspaceId", "clientId"}
      [] name \in {"update_tag", "delete_tag"} -> {"workspaceId", "tagId"}
      [] OTHER -> {}

\* the method each case of the switch calls
HandlerOf(name) ==
    CASE name = "get_current_user" -> "getCurrentUser"
      [] name = "get_workspaces" -> "getWorkspaces"
      [] name = "get_workspace_users" -> "getWorkspaceUsers"
      [] name = "create_time_entry" -> "createTimeEntry"
      [] name = "get_time_entries" -> "getTimeEntries"
      [] name = "update_time_entry" -> "updateTimeEntry"
      [] name = "delete_time_entry" -> "deleteTimeEntry"
      [] name = "stop_time_entry" -> "stopTimeEntry"
      [] name = "create_project" -> "createProject"
      [] name = "get_projects" -> "getProjects"
      [] name = "get_project" -> "getProject"
      [] name = "update_project" -> "updateProject"
      [] name = "delete_project" -> "deleteProject"
      [] name = "create_task" -> "createTask"
      [] name = "get_tasks" -> "getTasks"
      [] name = "get_task" -> "getTask"
      [] name = "update_task" -> "updateTask"
      [] name = "delete_task" -> "deleteTask"
      [] name = "create_client" -> "createClient"
      [] name = "get_clients" -> "getClients"
      [] name = "update_client" -> "updateClient"
      [] name = "delete_client" -> "deleteClient"
      [] name = "create_tag" -> "createTag"
      [] name = "get_tags" -> "getTags"
      [] name = "update_tag" -> "updateTag"
      [] name = "delete_tag" -> "deleteTag"
      [] name = "get_detailed_report" -> "getDetailedReport"
      [] name = "get_summary_report" -> "getSummaryReport"
      [] OTHER -> ""

\* `!args?.a || !args?.b`: some checked argument is missing or falsy
CheckFails(call) ==
    \E key \in Checked(call.name) :
        ~call.hasArgs \/ ~Truthy(Get(call.args, key))

(***************************************************************************)
(* Thrown values.  cls is the class of the thrown value, code the          *)
(* ErrorCode of an McpError ("" otherwise), msg the message as the         *)
(* sequence of the literal and interpolated pieces the code concatenates.  *)
(***************************************************************************)
Thrown(cls, code, msg) == [cls |-> cls, code |-> code, msg |-> msg]

NoError == Thrown("", "", <<>>)

McpError(code, msg) == Thrown("McpError", code, msg)

(***************************************************************************)
(* Dates: String.prototype.includes("T") and new Date(s).toISOString() on  *)
(* the date strings of the model.                                          *)
(***************************************************************************)
DateOnly == "2024-01-15"

DateTime == "2024-01-15T09:00:00Z"

NotADate == "soon"

\* s.includes("T")
HasT(s) == s \in {DateTime, "2024-01-15T00:00:00.000Z", "2024-01-15T10:00:00.000Z", "T"}

\* new Date(s) is a valid date
Parsable(s) == s \in {DateOnly, DateTime, "2024-01-15T00:00:00.000Z", "2024-01-15T10:00:00.000Z"}

\* new Date(s).toISOString() of a parsable s
ToISOString(s) ==
    CASE s = DateOnly -> "2024-01-15T00:00:00.000Z"
      [] s = DateTime -> "2024-01-15T09:00:00.000Z"
      [] OTHER -> s

\* `if (!v.includes("T")) v = new Date(v).toISOString()` on a value v
NormDate(v) ==
    CASE v.t \in {"undefined", "null"} ->
            [err |-> Thrown("TypeError", "",
                       <<"Cannot read properties of ", ToStr(v), " (reading 'includes')">>),
             v |-> v]
      [] v.t \in {"number", "boolean"} ->
            [err |-> Thrown("TypeError", "", <<"includes is not a function">>),
             v |-> v]
      [] (v.t = "string" /\ HasT(v.s)) \/ (v.t = "array" /\ v.s = "T") ->
            [err |-> NoError, v |-> v]
      [] Parsable(v.s) -> [err |-> NoError, v |-> Str(ToISOString(v.s))]
      [] OTHER ->
            [err |-> Thrown("RangeError", "", <<"Invalid time value">>), v |-> v]

\* obj.key = v on a bag that has the key
Put(args, key, v) ==
    [j \in DOMAIN args |-> IF args[j].k = key THEN [k |-> key, v |-> v] ELSE args[j]]

(***************************************************************************)
(* The request a handler hands to makeRequest: endpoint (path pieces and   *)
(* query pairs), method, data and the base URL override.                   *)
(***************************************************************************)
PrimaryBase == "https://api.clockify.me/api/v1"

ReportsBase == "https://reports.api.clockify.me/v1"

Request(method, path, query, hasData, data, baseUrl) ==
    [method |-> method, path |-> path, query |-> query,
     hasData |-> hasData, data |-> data, baseUrl |-> baseUrl]

NoRequest == Request("", <<>>, <<>>, FALSE, <<>>, "")

\* a handler either throws before it calls makeRequest or calls it once
Throws(e) == [err |-> e, req |-> NoRequest]

Calls(r) == [err |-> NoError, req |-> r]

\* URLSearchParams serialisation of one value: application/x-www-form-urlencoded
FormEncode(s) ==
    CASE s = DateTime -> "2024-01-15T09%3A00%3A00Z"
      [] s = "a,b" -> "a%2Cb"
      [] OTHER -> s

\* appends only the truthy values, so that false and 0 are dropped
QueryParamsTruthyOnly(params) ==
    LET kept == SelectSeq(params, LAMBDA p : Truthy(p.v))
    IN [j \in DOMAIN kept |-> [k |-> kept[j].k, v |-> FormEncode(ToStr(kept[j].v))]]

\* Object.entries(params).forEach: append key=String(value) unless null/undefined
QueryParams(params) ==
    LET kept == SelectSeq(params, LAMBDA p : p.v.t \notin {"undefined", "null"})
    IN [j \in DOMAIN kept |-> [k |-> kept[j].k, v |-> FormEncode(ToStr(kept[j].v))]]

\* queryParams.toString(): the pairs as key=value joined by "&"
RECURSIVE QueryString(_)
QueryString(query) ==
    IF query = <<>> THEN <<>>
    ELSE <<query[1].k, "=", query[1].v>>
         \o (IF Len(query) = 1 THEN <<>> ELSE <<"&">> \o QueryString(Tail(query)))

\* the endpoint handed to makeRequest: "?" and the query only when there is one
Endpoint(path, query) ==
    IF QueryString(query) # <<>> THEN path \o <<"?">> \o QueryString(query) ELSE path

WorkspacePath(args) == <<"/workspaces/", ToStr(Get(args, "workspaceId"))>>

\* getProjects, getTasks, getClients, getTags: GET with the rest as query
ListRequest(path, params) == Calls(Request("GET", path, QueryParams(params), FALSE, <<>>, ""))

\* plain GET and DELETE
PlainRequest(method, path) == Calls(Request(method, path, <<>>, FALSE, <<>>, ""))

\* POST and PUT with a JSON body
BodyRequest(method, path, data) == Calls(Request(method, path, <<>>, TRUE, data, ""))

(***************************************************************************)
(* The handlers, up to their call of makeRequest.                          *)
(***************************************************************************)
\* createTimeEntry: start is always normalised, end only when truthy
createTimeEntry(args) ==
    LET data == Rest(args, {"workspaceId"})
        st == NormDate(Get(data, "start"))
        en == IF Truthy(Get(data, "end")) THEN NormDate(Get(data, "end"))
              ELSE [err |-> NoError, v |-> Get(data, "end")]
    IN IF st.err # NoError THEN Throws(st.err)
       ELSE IF en.err # NoError THEN Throws(en.err)
       ELSE BodyRequest("POST", WorkspacePath(args) \o <<"/time-entries">>,
                        Put(Put(data, "start", st.v), "end", en.v))

\* updateTimeEntry: start and end are normalised only when truthy
updateTimeEntry(args) ==
    LET data == Rest(args, {"workspaceId", "timeEntryId"})
        st == IF Truthy(Get(data, "start")) THEN NormDate(Get(data, "start"))
              ELSE [err |-> NoError, v |-> Get(data, "start")]
        en == IF Truthy(Get(data, "end")) THEN NormDate(Get(data, "end"))
              ELSE [err |-> NoError, v |-> Get(data, "end")]
    IN IF st.err # NoError THEN Throws(st.err)
       ELSE IF en.err # NoError THEN Throws(en.err)
       ELSE BodyRequest("PUT",
                WorkspacePath(args) \o <<"/time-entries/", ToStr(Get(args, "timeEntryId"))>>,
                Put(Put(data, "start", st.v), "end", en.v))

\* getTimeEntries: the per-user path only when userId is truthy
getTimeEntries(args) ==
    LET params == Rest(args, {"workspaceId", "userId"})
        userId == Get(args, "userId")
    IN ListRequest(IF Truthy(userId)
                   THEN WorkspacePath(args) \o <<"/user/", ToStr(userId), "/time-entries">>
                   ELSE WorkspacePath(args) \o <<"/time-entries">>,
                   params)

\* an end time normalised as createTimeEntry normalises it
StopEndTimeNormalised(args, now) ==
    LET end == Get(args, "end")
    IN IF ~Truthy(end) THEN Str(now)
       ELSE IF end.t = "string" /\ ~HasT(end.s) /\ Parsable(end.s)
       THEN Str(ToISOString(end.s))
       ELSE end

\* the end time stopTimeEntry sends and prints: end || new Date().toISOString()
StopEndTime(args, now) == IF Truthy(Get(args, "end")) THEN Get(args, "end") ELSE Str(now)

\* a stop addressed to the time entry named by the caller
stopTimeEntryByIdentifier(args, now) ==
    BodyRequest("PATCH",
        WorkspacePath(args) \o <<"/time-entries/", ToStr(Get(args, "timeEntryId"))>>,
        <<[k |-> "end", v |-> StopEndTime(args, now)]>>)

\* stopTimeEntry: PATCH of the user's running entry with the end time alone
stopTimeEntry(args, now) ==
    BodyRequest("PATCH",
        WorkspacePath(args) \o <<"/user/", ToStr(Get(args, "userId")), "/time-entries">>,
        <<[k |-> "end", v |-> StopEndTime(args, now)]>>)

ProjectPath(args) == WorkspacePath(args) \o <<"/projects/", ToStr(Get(args, "projectId"))>>

TaskPath(args) == ProjectPath(args) \o <<"/tasks/", ToStr(Get(args, "taskId"))>>

ClientPath(args) == WorkspacePath(args) \o <<"/clients/", ToStr(Get(args, "clientId"))>>

TagPath(args) == WorkspacePath(args) \o <<"/tags/", ToStr(Get(args, "tagId"))>>

\* x ? { ids: x } : undefined, as the payload entry "<key>.ids"
IdsFilter(data, key) == [k |-> key \o ".ids",
                         v |-> IF Truthy(Get(data, key)) THEN Get(data, key) ELSE Undefined]

\* a with no default
OrElseNoDefault(v, dflt) == v

\* a || dflt
OrElse(v, dflt) == IF Truthy(v) THEN v ELSE dflt

\* the numbers whose decimal text the model knows
KnownNumbers == {0, 1, 10, 50, 200, 204, 404, 500, 1000, 5000}

\* pageSize || 50 without the Math.min
PageSizeNoClamp(v) == OrElse(v, Num(50))

\* Math.min(pageSize || 50, 1000): ToNumber of the truthy value, NaN when it
\* is not numeric, and JSON.stringify writes NaN as null
PageSize(v) ==
    LET w == OrElse(v, Num(50))
        clamp(n) == Num(IF n < 1000 THEN n ELSE 1000)
    IN CASE w.t = "number" -> clamp(w.n)
         [] w.t = "boolean" -> Num(1)
         [] \E n \in KnownNumbers : NumText(n) = w.s ->
                clamp(CHOOSE n \in KnownNumbers : NumText(n) = w.s)
         [] OTHER -> Null

\* a payload sent with its undefined properties
StripNothing(payload) == payload

\* `Remove undefined properties`: the forEach/delete loop over the payload
StripUndefined(payload) == SelectSeq(payload, LAMBDA p : p.v.t # "undefined")

\* getDetailedReport: nested keys are written with dots
getDetailedReport(call) ==
    IF ~call.hasArgs
    THEN Throws(Thrown("TypeError", "",
                  <<"Cannot destructure 'args' as it is undefined.">>))
    ELSE LET data == Rest(call.args, {"workspaceId"})
             payload ==
               <<[k |-> "dateRangeStart", v |-> Get(data, "dateRangeStart")],
                 [k |-> "dateRangeEnd", v |-> Get(data, "dateRangeEnd")],
                 [k |-> "detailedFilter.sortColumn", v |-> OrElse(Get(data, "sortColumn"), Str("DATE"))],
                 [k |-> "detailedFilter.sortOrder", v |-> OrElse(Get(data, "sortOrder"), Str("DESCENDING"))],
                 [k |-> "detailedFilter.page", v |-> OrElse(Get(data, "page"), Num(1))],
                 [k |-> "detailedFilter.pageSize", v |-> PageSize(Get(data, "pageSize"))],
                 [k |-> "detailedFilter.options.totals", v |-> Str("CALCULATE")],
                 IdsFilter(data, "users"), IdsFilter(data, "clients"),
                 IdsFilter(data, "projects"), IdsFilter(data, "tasks"),
                 IdsFilter(data, "tags"),
                 [k |-> "billable", v |-> Get(data, "billable")],
                 [k |-> "description", v |-> Get(data, "description")],
                 [k |-> "withoutDescription", v |-> Get(data, "withoutDescription")],
                 [k |-> "customFieldIds", v |-> Get(data, "customFieldIds")],
                 [k |-> "exportType", v |-> OrElse(Get(data, "exportType"), Str("JSON"))]>>
         IN Calls(Request("POST", WorkspacePath(call.args) \o <<"/reports/detailed">>,
                          <<>>, TRUE, StripUndefined(payload), ReportsBase))

getSummaryReport(call) ==
    IF ~call.hasArgs
    THEN Throws(Thrown("TypeError", "",
                  <<"Cannot destructure 'args' as it is undefined.">>))
    ELSE LET data == Rest(call.args, {"workspaceId"})
             payload ==
               <<[k |-> "dateRangeStart", v |-> Get(data, "dateRangeStart")],
                 [k |-> "dateRangeEnd", v |-> Get(data, "dateRangeEnd")],
                 [k |-> "summaryFilter.groups", v |-> OrElse(Get(data, "groups"), List("PROJECT"))],
                 [k |-> "summaryFilter.sortColumn", v |-> OrElse(Get(data, "sortColumn"), Str("DURATION"))],
                 [k |-> "summaryFilter.sortOrder", v |-> OrElse(Get(data, "sortOrder"), Str("DESCENDING"))],
                 IdsFilter(data, "users"), IdsFilter(data, "clients"),
                 IdsFilter(data, "projects"), IdsFilter(data, "tasks"),
                 IdsFilter(data, "tags"),
                 [k |-> "billable", v |-> Get(data, "billable")],
                 [k |-> "exportType", v |-> OrElse(Get(data, "exportType"), Str("JSON"))]>>
         IN Calls(Request("POST", WorkspacePath(call.args) \o <<"/reports/summary">>,
                          <<>>, TRUE, StripUndefined(payload), ReportsBase))

\* what the handler of a routed name does before it awaits makeRequest
Handler(call, now) ==
    LET args == call.args
        name == call.name
    IN CASE name = "get_current_user" -> PlainRequest("GET", <<"/user">>)
         [] name = "get_workspaces" -> PlainRequest("GET", <<"/workspaces">>)
         [] name = "get_workspace_users" ->
                PlainRequest("GET", WorkspacePath(args) \o <<"/users">>)
         [] name = "create_time_entry" -> createTimeEntry(args)
         [] name = "get_time_entries" -> getTimeEntries(args)
         [] name = "update_time_entry" -> updateTimeEntry(args)
         [] name = "delete_time_entry" ->
                PlainRequest("DELETE",
                    WorkspacePath(args) \o <<"/time-entries/", ToStr(Get(args, "timeEntryId"))>>)
         [] name = "stop_time_entry" -> stopTimeEntry(args, now)
         [] name = "create_project" ->
                BodyRequest("POST", WorkspacePath(args) \o <<"/projects">>,
                            Rest(args, {"workspaceId"}))
         [] name = "get_projects" ->
                ListRequest(WorkspacePath(args) \o <<"/projects">>,
                            Rest(args, {"workspaceId"}))
         [] name = "get_project" -> PlainRequest("GET", ProjectPath(args))
         [] name = "update_project" ->
                BodyRequest("PUT", ProjectPath(args), Rest(args, {"workspaceId", "projectId"}))
         [] name = "delete_project" -> PlainRequest("DELETE", ProjectPath(args))
         [] name = "create_task" ->
                BodyRequest("POST", ProjectPath(args) \o <<"/tasks">>,
                            Rest(args, {"workspaceId", "projectId"}))
         [] name = "get_tasks" ->
                ListRequest(ProjectPath(args) \o <<"/tasks">>,
                            Rest(args, {"workspaceId", "projectId"}))
         [] name = "get_task" -> PlainRequest("GET", TaskPath(args))
         [] name = "update_task" ->
                BodyRequest("PUT", TaskPath(args),
                            Rest(args, {"workspaceId", "projectId", "taskId"}))
         [] name = "delete_task" -> PlainRequest("DELETE", TaskPath(args))
         [] name = "create_client" ->
                BodyRequest("POST", WorkspacePath(args) \o <<"/clients">>,
                            Rest(args, {"workspaceId"}))
         [] name = "get_clients" ->
                ListRequest(WorkspacePath(args) \o <<"/clients">>,
                            Rest(args, {"workspaceId"}))
         [] name = "update_client" ->
                BodyRequest("PUT", ClientPath(args), Rest(args, {"workspaceId", "clientId"}))
         [] name = "delete_client" -> PlainRequest("DELETE", ClientPath(args))
         [] name = "create_tag" ->
                BodyRequest("POST", WorkspacePath(args) \o <<"/tags">>,
                            Rest(args, {"workspaceId"}))
         [] name = "get_tags" ->
                ListRequest(WorkspacePath(args) \o <<"/tags">>,
                            Rest(args, {"workspaceId"}))
         [] name = "update_tag" ->
                BodyRequest("PUT", TagPath(args), Rest(args, {"workspaceId", "tagId"}))
         [] name = "delete_tag" -> PlainRequest("DELETE", TagPath(args))
         [] name = "get_detailed_report" -> getDetailedReport(call)
         [] OTHER -> getSummaryReport(call)

(***************************************************************************)
(* The remote API's answer to one fetch: a transport failure, or an HTTP   *)
(* response with a status and a body, the body named by its raw text.      *)
(***************************************************************************)
EntityBody == "{entity}"

ArrayBody == "[{entity}]"

BareBody == "{}"

NullBody == "null"

EmptyBody == ""

NotFoundBody == "Not found"

\* a report with one total, one time entry and one group
ReportBody == "{totals:[{totalTime:PT2H}],timeentries:[{}],groupOne:[{}]}"

\* a report whose totals array is empty
EmptyTotalsBody == "{totals:[]}"

HttpResponse(status, body) == [kind |-> "http", status |-> status, body |-> body, message |-> ""]

Rejection(message) == [kind |-> "reject", status |-> 0, body |-> "", message |-> message]

NoResponse == [kind |-> "", status |-> 0, body |-> "", message |-> ""]

\* the Response fetch resolved with: the status is known, the body is still
\* to be read
ResponseHead(status) == [kind |-> "head", status |-> status, body |-> "", message |-> ""]

\* the body stream of a Response failed: response.text() or response.json()
\* rejects with a TypeError of this message
BodyFailure(status, message) ==
    [kind |-> "bodyfail", status |-> status, body |-> "", message |-> message]

\* the message of the TypeError of a connection that drops in the body
Terminated == "terminated"

\* response.ok
Ok(resp) == resp.status >= 200 /\ resp.status <= 299

\* the bodies JSON.parse accepts
IsJson(body) ==
    body \in {EntityBody, ArrayBody, BareBody, NullBody, ReportBody, EmptyTotalsBody}

\* the first character of a body text
FirstCharacter(body) ==
    CASE body = NotFoundBody -> "N"
      [] body \in {EntityBody, BareBody, ReportBody, EmptyTotalsBody} -> "{"
      [] body = ArrayBody -> "["
      [] body = NullBody -> "n"
      [] OTHER -> ""

\* the SyntaxError response.json() rejects with on the other bodies: the
\* parser stops at the end of an empty text, and at the first character of a
\* short text that is no JSON value, which it names together with the text
ParseError(body) ==
    IF body = EmptyBody THEN Thrown("SyntaxError", "", <<"Unexpected end of JSON input">>)
    ELSE Thrown("SyntaxError", "",
                <<"Unexpected token '", FirstCharacter(body), "', \"", body,
                  "\" is not valid JSON">>)

(***************************************************************************)
(* makeRequest.                                                            *)
(***************************************************************************)
\* KeyMissing without the check: every configuration passes
KeyMissingNever(cfg) == FALSE

\* `if (!this.config.apiKey)`
KeyMissing(cfg) == cfg.apiKey = ""

KeyError == McpError("InvalidParams",
              <<"Clockify API key not configured. Set CLOCKIFY_API_KEY environment variable.">>)

\* the request fetch puts on the wire when the base override is dropped
WireRequestIgnoreOverride(cfg, r) ==
    [base |-> cfg.baseUrl,
     path |-> r.path, query |-> r.query, method |-> r.method,
     apiKeyHeader |-> cfg.apiKey, contentType |-> "application/json",
     hasBody |-> r.hasData, body |-> r.data]

\* the request fetch puts on the wire when the headers are left out for an
\* overriding base
WireRequestNoKeyOnOverride(cfg, r) ==
    [base |-> IF r.baseUrl # "" THEN r.baseUrl ELSE cfg.baseUrl,
     path |-> r.path, query |-> r.query, method |-> r.method,
     apiKeyHeader |-> IF r.baseUrl # "" THEN "" ELSE cfg.apiKey,
     contentType |-> "application/json",
     hasBody |-> r.hasData, body |-> r.data]

\* the request fetch puts on the wire
WireRequest(cfg, r) ==
    [base |-> IF r.baseUrl # "" THEN r.baseUrl ELSE cfg.baseUrl,
     path |-> r.path, query |-> r.query, method |-> r.method,
     apiKeyHeader |-> cfg.apiKey, contentType |-> "application/json",
     hasBody |-> r.hasData, body |-> r.data]

\* `${baseUrl || this.config.baseUrl}${endpoint}` of a request on the wire
Url(w) == <<w.base>> \o Endpoint(w.path, w.query)

\* Fetch with one retry: the request is sent twice
FetchTwice(cfg, r) == <<WireRequest(cfg, r), WireRequest(cfg, r)>>

\* the requests one call of makeRequest sends once the key check has passed
Fetch(cfg, r) == <<WireRequest(cfg, r)>>

\* ApiError that leaves the body text out of the message
ApiErrorNoText(status, errorText) ==
    McpError("InternalError", <<"Clockify API error (", NumText(status), ")">>)

\* `Clockify API error (${response.status}): ${errorText}`
ApiError(status, errorText) ==
    McpError("InternalError", <<"Clockify API error (", NumText(status), "): ", errorText>>)

\* RequestFailed that leaves the underlying message out
RequestFailedNoMessage(message) == McpError("InternalError", <<"Request failed">>)

\* `Request failed: ${error.message}`
RequestFailed(message) == McpError("InternalError", <<"Request failed: ", message>>)

\* what the awaited makeRequest gives the handler once the answer is in:
\* `return response.json()` is not awaited inside the try, so a rejected
\* parse leaves makeRequest as the bare SyntaxError
MakeRequestSettled(resp) ==
    CASE resp.kind = "reject" -> [err |-> RequestFailed(resp.message), value |-> ""]
      [] resp.kind = "bodyfail" /\ ~Ok(resp) ->
            [err |-> RequestFailed(resp.message), value |-> ""]
      [] resp.kind = "bodyfail" ->
            [err |-> Thrown("TypeError", "", <<resp.message>>), value |-> ""]
      [] ~Ok(resp) -> [err |-> ApiError(resp.status, resp.body), value |-> ""]
      [] IsJson(resp.body) -> [err |-> NoError, value |-> resp.body]
      [] OTHER -> [err |-> ParseError(resp.body), value |-> ""]

(***************************************************************************)
(* The handlers, after makeRequest has returned the parsed value: the text *)
(* they render, or the TypeError a property read of the value throws.      *)
(***************************************************************************)
ListTools == {"get_workspaces", "get_workspace_users", "get_time_entries",
              "get_projects", "get_tasks", "get_clients", "get_tags"}

DeleteTools == {"delete_time_entry", "delete_project", "delete_task",
                "delete_client", "delete_tag"}

TimeIntervalTools == {"create_time_entry", "update_time_entry", "stop_time_entry"}

ReportTools == {"get_detailed_report", "get_summary_report"}

\* the identifier a delete handler prints
DeletedId(call) ==
    CASE call.name = "delete_time_entry" -> Get(call.args, "timeEntryId")
      [] call.name = "delete_project" -> Get(call.args, "projectId")
      [] call.name = "delete_task" -> Get(call.args, "taskId")
      [] call.name = "delete_client" -> Get(call.args, "clientId")
      [] OTHER -> Get(call.args, "tagId")

\* the literal that opens the text of each handler
Heading(name) ==
    CASE name = "get_current_user" -> "Current user: "
      [] name \in ListTools -> "Found "
      [] name = "create_time_entry" -> "Time entry created successfully!"
      [] name = "update_time_entry" -> "Time entry updated successfully!"
      [] name = "stop_time_entry" -> "Time entry stopped at "
      [] name = "create_project" -> "Project created successfully!"
      [] name = "get_project" -> "Project Details:"
      [] name = "update_project" -> "Project updated successfully!"
      [] name = "create_task" -> "Task created successfully!"
      [] name = "get_task" -> "Task Details:"
      [] name = "update_task" -> "Task updated successfully!"
      [] name = "create_client" -> "Client created successfully!"
      [] name = "update_client" -> "Client updated successfully!"
      [] name = "create_tag" -> "Tag created successfully!"
      [] name = "update_tag" -> "Tag updated successfully!"
      [] name = "delete_time_entry" -> "Time entry "
      [] name = "delete_project" -> "Project "
      [] name = "delete_task" -> "Task "
      [] name = "delete_client" -> "Client "
      [] name = "delete_tag" -> "Tag "
      [] name = "get_detailed_report" -> "Detailed Report Summary:"
      [] OTHER -> "Summary Report:"

Rendered(text) == [err |-> NoError, text |-> text]

\* the duration a report shows whatever the totals are
TotalDurationFixed(value) == "0:00:00"

\* report.totals?.[0]?.totalTime || "0:00:00"
TotalDuration(value) == IF value = ReportBody THEN "PT2H" ELSE "0:00:00"

\* report.timeentries?.length || 0
TotalEntries(value) == IF value = ReportBody THEN 1 ELSE 0

\* report.groupOne?.length || 0
GroupCount(value) == IF value = ReportBody THEN 1 ELSE 0

\* reportData.groups?.join(", ") || "PROJECT"
GroupsText(groups) ==
    CASE groups.t = "array" /\ groups.s = "USER,PROJECT" -> "USER, PROJECT"
      [] groups.t = "array" /\ groups.s # "" -> groups.s
      [] OTHER -> "PROJECT"

\* `Date Range: ${dateRangeStart} to ${dateRangeEnd}`
DateRangeLine(args) ==
    <<"Date Range: ", ToStr(Get(args, "dateRangeStart")), " to ",
      ToStr(Get(args, "dateRangeEnd"))>>

RenderThrows(message) == [err |-> Thrown("TypeError", "", <<message>>), text |-> <<>>]

Render(call, now, value) ==
    LET name == call.name
    IN IF name \in DeleteTools
       THEN Rendered(<<Heading(name), ToStr(DeletedId(call)), " deleted successfully!">>)
       ELSE IF name = "get_summary_report"
               /\ Get(call.args, "groups").t \notin {"array", "undefined", "null"}
       THEN RenderThrows("reportData.groups?.join is not a function")
       ELSE IF value = NullBody
       THEN RenderThrows("Cannot read properties of null")
       ELSE IF name \in ListTools /\ value # ArrayBody
       THEN RenderThrows("map is not a function")
       ELSE IF name \in TimeIntervalTools /\ value # EntityBody
       THEN RenderThrows("Cannot read properties of undefined")
       ELSE IF name = "stop_time_entry"
       THEN Rendered(<<Heading(name), ToStr(StopEndTime(call.args, now))>>)
       ELSE IF name = "get_detailed_report"
       THEN Rendered(<<Heading(name), "Total Entries: ", NumText(TotalEntries(value)),
                       "Total Duration: ", TotalDuration(value)>>
                     \o DateRangeLine(call.args))
       ELSE IF name = "get_summary_report"
       THEN Rendered(<<Heading(name), "Groups: ", GroupsText(Get(call.args, "groups")),
                       "Total Duration: ", TotalDuration(value)>>
                     \o DateRangeLine(call.args)
                     \o <<"Group Count: ", NumText(GroupCount(value))>>)
       ELSE Rendered(<<Heading(name)>>)

(***************************************************************************)
(* The dispatcher's outcomes.                                              *)
(***************************************************************************)
\* `'workspaceId and projectId are required'` and the like
CheckMessage(name) ==
    CASE Checked(name) = {"workspaceId"} -> "workspaceId is required"
      [] Checked(name) = {"workspaceId", "timeEntryId"} ->
            "workspaceId and timeEntryId are required"
      [] Checked(name) = {"workspaceId", "userId"} ->
            "workspaceId and userId are required"
      [] Checked(name) = {"workspaceId", "projectId"} ->
            "workspaceId and projectId are required"
      [] Checked(name) = {"workspaceId", "projectId", "taskId"} ->
            "workspaceId, projectId and taskId are required"
      [] Checked(name) = {"workspaceId", "clientId"} ->
            "workspaceId and clientId are required"
      [] OTHER -> "workspaceId and tagId are required"

CheckError(name) == McpError("InvalidParams", <<CheckMessage(name)>>)

\* UnknownTool raised with the code of a missing argument
UnknownToolInvalidParams(name) == McpError("InvalidParams", <<"Unknown tool: ", name>>)

\* the default case of the switch
UnknownTool(name) == McpError("MethodNotFound", <<"Unknown tool: ", name>>)

\* Catch without the instanceof test: every thrown value is wrapped
CatchWrapAll(e) == McpError("InternalError", <<"Tool execution failed: ">> \o e.msg)

\* the catch of the dispatcher: an McpError is rethrown, anything else wrapped
Catch(e) ==
    IF e.cls = "McpError" THEN e
    ELSE McpError("InternalError", <<"Tool execution failed: ">> \o e.msg)

\* how an invocation ends: a returned result or a raised error
Result(text) ==
    [kind |-> "result", content |-> <<[type |-> "text", text |-> text]>>,
     isError |-> FALSE, error |-> NoError]

Raised(e) == [kind |-> "error", content |-> <<>>, isError |-> FALSE, error |-> e]

Pending == [kind |-> "", content |-> <<>>, isError |-> FALSE, error |-> NoError]

\* what makeRequest has given the handler so far
NotReturned == [state |-> "none", value |-> "", err |-> NoError]

\* a dispatcher that looks for the API key before anything else
DispatchKeyFirst(cfg, call, now) ==
    IF KeyMissing(cfg)
    THEN [err |-> KeyError, handler |-> "", called |-> FALSE, wire |-> <<>>]
    ELSE IF call.name \notin Routed
    THEN [err |-> UnknownTool(call.name), handler |-> "", called |-> FALSE, wire |-> <<>>]
    ELSE IF CheckFails(call)
    THEN [err |-> CheckError(call.name), handler |-> "", called |-> FALSE, wire |-> <<>>]
    ELSE LET h == Handler(call, now)
             method == HandlerOf(call.name)
         IN IF h.err # NoError
            THEN [err |-> h.err, handler |-> method, called |-> FALSE, wire |-> <<>>]
            ELSE IF KeyMissing(cfg)
            THEN [err |-> KeyError, handler |-> method, called |-> TRUE, wire |-> <<>>]
            ELSE [err |-> NoError, handler |-> method, called |-> TRUE,
                  wire |-> Fetch(cfg, h.req)]

\* the synchronous part of an invocation: switch, argument check, handler up
\* to makeRequest, API-key check, fetch.  handler: the method the switch
\* called ("" when none); called: makeRequest was entered.
Dispatch(cfg, call, now) ==
    IF call.name \notin Routed
    THEN [err |-> UnknownTool(call.name), handler |-> "", called |-> FALSE, wire |-> <<>>]
    ELSE IF CheckFails(call)
    THEN [err |-> CheckError(call.name), handler |-> "", called |-> FALSE, wire |-> <<>>]
    ELSE LET h == Handler(call, now)
             method == HandlerOf(call.name)
         IN IF h.err # NoError
            THEN [err |-> h.err, handler |-> method, called |-> FALSE, wire |-> <<>>]
            ELSE IF KeyMissing(cfg)
            THEN [err |-> KeyError, handler |-> method, called |-> TRUE, wire |-> <<>>]
            ELSE [err |-> NoError, handler |-> method, called |-> TRUE,
                  wire |-> Fetch(cfg, h.req)]

\* the rest of the invocation once the answer resp is in: a rejection of the
\* fetch, a response with its body, or a response whose body stream failed
Complete(call, now, resp) ==
    LET m == MakeRequestSettled(resp)
        r == Render(call, now, m.value)
    IN IF m.err # NoError
       THEN [mr |-> [state |-> "threw", value |-> "", err |-> m.err],
             thrown |-> m.err,
             out |-> Raised(Catch(m.err))]
       ELSE [mr |-> [state |-> "returned", value |-> m.value, err |-> NoError],
             thrown |-> r.err,
             out |-> IF r.err # NoError THEN Raised(Catch(r.err)) ELSE Result(r.text)]

(***************************************************************************)
(* Inputs: the calls a client makes and the answers the remote API gives.  *)
(***************************************************************************)
\* the argument names, in catalogue order, from which the bags of a tool are drawn
ParamOrder(name) ==
    CASE name \in {"get_current_user", "get_workspaces"} -> <<>>
      [] name = "get_workspace_users" -> <<"workspaceId">>
      [] name = "create_time_entry" -> <<"workspaceId", "start", "end", "projectId">>
      [] name = "get_time_entries" -> <<"workspaceId", "userId", "start", "pageSize">>
      [] name = "update_time_entry" -> <<"workspaceId", "timeEntryId", "start", "end">>
      [] name = "delete_time_entry" -> <<"workspaceId", "timeEntryId">>
      [] name = "stop_time_entry" -> <<"workspaceId", "userId", "end", "timeEntryId">>
      [] name = "create_project" -> <<"workspaceId", "name", "clientId">>
      [] name \in {"create_client", "create_tag"} -> <<"workspaceId", "name">>
      [] name \in {"get_projects", "get_clients", "get_tags"} ->
            <<"workspaceId", "archived", "pageSize">>
      [] name \in {"get_project", "delete_project"} -> <<"workspaceId", "projectId">>
      [] name = "update_project" -> <<"workspaceId", "projectId", "name", "archived">>
      [] name = "create_task" -> <<"workspaceId", "projectId", "name">>
      [] name = "get_tasks" -> <<"workspaceId", "projectId", "pageSize">>
      [] name \in {"get_task", "delete_task"} -> <<"workspaceId", "projectId", "taskId">>
      [] name = "update_task" -> <<"workspaceId", "projectId", "taskId", "name">>
      [] name = "delete_client" -> <<"workspaceId", "clientId">>
      [] name = "update_client" -> <<"workspaceId", "clientId", "name">>
      [] name \in {"update_tag", "delete_tag"} -> <<"workspaceId", "tagId", "name">>
      [] name = "get_detailed_report" ->
            <<"workspaceId", "dateRangeStart", "dateRangeEnd", "pageSize", "users", "billable">>
      [] name = "get_summary_report" ->
            <<"workspaceId", "dateRangeStart", "dateRangeEnd", "groups", "users", "billable">>
      [] OTHER -> <<"workspaceId">>

\* the values an argument takes
ParamValues(name, key) ==
    CASE key = "workspaceId" -> {Str("w1"), Str("")}
      [] key = "userId" -> {Str("u1")}
      [] key = "timeEntryId" -> {Str("e1")}
      [] key = "projectId" -> {Str("p1")}
      [] key = "taskId" -> {Str("t1")}
      [] key = "clientId" -> {Str("c1")}
      [] key = "tagId" -> {Str("g1")}
      [] key = "name" -> {Str("n1")}
      [] key \in {"start", "end"} ->
            IF name = "get_time_entries" THEN {Str(DateTime)}
            ELSE {Str(DateOnly), Str(DateTime), Str(NotADate), Str("")}
      [] key \in {"dateRangeStart", "dateRangeEnd"} -> {Str(DateTime)}
      [] key = "pageSize" ->
            IF name = "get_detailed_report" THEN {Num(10), Num(1000), Num(5000), Num(0)}
            ELSE {Num(10), Num(0)}
      [] key = "archived" -> {Bool(TRUE), Bool(FALSE), Null}
      [] key = "groups" -> {List("USER,PROJECT"), List("")}
      [] key = "users" -> {List("u1,u2"), List("")}
      [] key = "billable" -> {Bool(FALSE), Null}
      [] OTHER -> {}

\* every bag over a suffix of the parameter order: each key absent or present
RECURSIVE BagsOver(_, _)
BagsOver(name, keys) ==
    IF keys = <<>> THEN {<<>>}
    ELSE LET rest == BagsOver(name, Tail(keys))
         IN rest \cup {<<[k |-> Head(keys), v |-> x]>> \o r :
                          x \in ParamValues(name, Head(keys)), r \in rest}

Call(name, hasArgs, args) == [name |-> name, hasArgs |-> hasArgs, args |-> args]

NoCall == Call("", FALSE, <<>>)

\* names the catalogue does not have
UnknownNames == {"get_invoices", "GET_PROJECTS"}

\* a bag with its pairs inserted in the opposite order
Reversed(args) == [j \in DOMAIN args |-> args[Len(args) + 1 - j]]

\* the reads whose remaining arguments become the query string
QueryTools == {"get_time_entries", "get_projects", "get_tasks", "get_clients", "get_tags"}

\* the calls of the sequential runs: every bag in catalogue order, and the
\* bags of the query reads in the opposite order as well
AllCalls ==
    {Call(name, FALSE, <<>>) : name \in Catalogue \cup UnknownNames}
    \cup UNION {{Call(name, TRUE, a) : a \in BagsOver(name, ParamOrder(name))} :
                  name \in Catalogue \cup UnknownNames}
    \cup UNION {{Call(name, TRUE, Reversed(a)) : a \in BagsOver(name, ParamOrder(name))} :
                  name \in QueryTools}

\* the calls of the concurrent runs
FewCalls ==
    {Call("delete_client", TRUE,
          <<[k |-> "workspaceId", v |-> Str("w1")], [k |-> "clientId", v |-> Str("c1")]>>),
     Call("create_project", TRUE,
          <<[k |-> "workspaceId", v |-> Str("w1")], [k |-> "name", v |-> Str("n1")]>>),
     Call("create_time_entry", TRUE,
          <<[k |-> "workspaceId", v |-> Str("w1")], [k |-> "start", v |-> Str(NotADate)]>>),
     Call("get_invoices", TRUE, <<>>)}

\* the instants new Date() reads
Clock == {"2024-01-15T00:00:00.000Z", "2024-01-15T10:00:00.000Z"}

\* the handler reads the clock: stopTimeEntry without a truthy end
ReadsClock(call) ==
    /\ call.name = "stop_time_entry"
    /\ ~CheckFails(call)
    /\ ~Truthy(Get(call.args, "end"))

\* the answers of the sequential runs
AllResponses ==
    {HttpResponse(st, body) :
        st \in {200, 204, 404},
        body \in {EntityBody, ArrayBody, BareBody, NullBody, EmptyBody, NotFoundBody,
                  ReportBody, EmptyTotalsBody}}
    \cup {Rejection("fetch failed")}

\* the answers of the concurrent runs
FewResponses ==
    {HttpResponse(200, EntityBody), HttpResponse(404, NotFoundBody),
     Rejection("fetch failed")}

(***************************************************************************)
(* State.  config is this.config; hostSlots is the number of invocations   *)
(* the host keeps in flight; inv[i] is the i-th invocation: its position   *)
(* (idle; awaiting the fetch; reading the body of the Response; settled:   *)
(* the promise of makeRequest has settled and the handler method has not   *)
(* resumed; returned: the promise of the handler method has settled and    *)
(* the dispatcher has not resumed; done), its call, the clock reading it   *)
(* took, the handler method the switch called, whether it entered          *)
(* makeRequest, the requests it put on the wire, the answer it got, what   *)
(* makeRequest gave the handler, the value thrown on its way to the        *)
(* dispatcher's catch, the text the handler method returned, and its       *)
(* outcome.  listed is the tools array of the last ListTools response      *)
(* (empty before the first).                                               *)
(***************************************************************************)
Slots == 1..MaxInFlight

IdleSlot ==
    [pc |-> "idle", call |-> NoCall, now |-> "", handler |-> "", called |-> FALSE,
     wire |-> <<>>,
     resp |-> NoResponse, mr |-> NotReturned, thrown |-> NoError, text |-> <<>>,
     out |-> Pending]

\* the constructor: the key is CLOCKIFY_API_KEY or "", the base URL is fixed
Constructed(cfg) ==
    /\ cfg.apiKey \in {"", "secret"}
    /\ cfg.baseUrl = PrimaryBase

Init ==
    /\ config \in {[apiKey |-> key, baseUrl |-> PrimaryBase] : key \in {"", "secret"}}
    /\ Constructed(config)
    /\ hostSlots = 1
    /\ inv = [i \in Slots |-> IdleSlot]
    /\ listed = <<>>
    /\ contacted = {}

InitConcurrent ==
    /\ config \in {[apiKey |-> key, baseUrl |-> PrimaryBase] : key \in {"", "secret"}}
    /\ Constructed(config)
    /\ hostSlots = MaxInFlight
    /\ inv = [i \in Slots |-> IdleSlot]
    /\ listed = <<>>
    /\ contacted = {}

InputCalls == IF hostSlots = 1 THEN AllCalls ELSE FewCalls

InputResponses == IF hostSlots = 1 THEN AllResponses ELSE FewResponses

\* the invocation of call once its synchronous part and the microtasks it
\* left behind have run: done when something threw before fetch, awaiting
\* the fetch otherwise.  mr is how the promise of makeRequest settled.
Started(call, now) ==
    LET d == Dispatch(config, call, now)
    IN IF d.err # NoError
       THEN [IdleSlot EXCEPT !.pc = "done", !.call = call, !.now = now,
                             !.handler = d.handler,
                             !.called = d.called,
                             !.mr = IF d.called
                                    THEN [state |-> "threw", value |-> "", err |-> d.err]
                                    ELSE NotReturned,
                             !.thrown = d.err,
                             !.out = Raised(Catch(d.err))]
       ELSE [IdleSlot EXCEPT !.pc = "awaiting", !.call = call, !.now = now,
                             !.handler = d.handler,
                             !.called = d.called, !.wire = d.wire]

\* the invocation at the moment the handler call has returned its promise.
\* A throw of the dispatcher itself (unknown name, failed check) has rejected
\* it.  A throw inside makeRequest has rejected only the promise of
\* makeRequest, and the handler method is suspended at `await
\* this.makeRequest(...)`; a throw inside the async handler method has
\* rejected only that method's promise, and the dispatcher is suspended at
\* `return await this.handler(args)`.  Until the awaits resume the
\* invocation is pending with no fetch called, and thrown is the value the
\* promise is rejected with.
Suspended(s) ==
    IF s.pc = "done" /\ s.handler # ""
    THEN [s EXCEPT !.pc = IF s.called THEN "settled" ELSE "returned", !.out = Pending]
    ELSE s

AtReturn(call, now) == Suspended(Started(call, now))

\* the bases of the requests fetch has been called with
Bases(wire) == {wire[j].base : j \in DOMAIN wire}

\* Invoke with a result cache: a call identical to a finished one is answered
\* from that invocation and sends nothing
InvokeCached(i) ==
    /\ i <= hostSlots
    /\ inv[i].pc = "idle"
    /\ \E call \in InputCalls, t \in Clock :
          LET now == IF ReadsClock(call) THEN t ELSE ""
              twins == {j \in Slots \ {i} : inv[j].pc = "done" /\ inv[j].call = call}
              slot == IF twins # {}
                      THEN [inv[CHOOSE j \in twins : TRUE] EXCEPT !.wire = <<>>]
                      ELSE AtReturn(call, now)
          IN /\ inv' = [inv EXCEPT ![i] = slot]
             /\ contacted' = contacted \cup Bases(slot.wire)
    /\ UNCHANGED <<config, hostSlots, listed>>

\* Invoke that keeps the base URL of its request as the configured one
InvokeStoringBaseUrl(i) ==
    /\ i <= hostSlots
    /\ inv[i].pc = "idle"
    /\ \E call \in InputCalls, t \in Clock :
          LET now == IF ReadsClock(call) THEN t ELSE ""
              slot == AtReturn(call, now)
          IN /\ inv' = [inv EXCEPT ![i] = slot]
             /\ contacted' = contacted \cup Bases(slot.wire)
             /\ config' = IF slot.wire # <<>>
                          THEN [config EXCEPT !.baseUrl = slot.wire[1].base]
                          ELSE config
    /\ UNCHANGED <<hostSlots, listed>>

\* a CallTool request arrives: the handler runs until its call returns
Invoke(i) ==
    /\ i <= hostSlots
    /\ inv[i].pc = "idle"
    /\ \E call \in InputCalls, t \in Clock :
          LET now == IF ReadsClock(call) THEN t ELSE ""
              slot == AtReturn(call, now)
          IN /\ inv' = [inv EXCEPT ![i] = slot]
             /\ contacted' = contacted \cup Bases(slot.wire)
    /\ UNCHANGED <<config, hostSlots, listed>>

\* the handler method with the rendering r of what makeRequest returned: its
\* promise is fulfilled with the text or rejected with what the rendering threw
MethodReturned(slot, r) == [slot EXCEPT !.pc = "returned", !.thrown = r.err, !.text = r.text]

\* MethodResumes with the call kept in one field of the server: the method
\* renders for the call of the latest invocation whose makeRequest has settled
MethodResumesLatestCall(i) ==
    /\ inv[i].pc = "settled"
    /\ LET latest == CHOOSE j \in Slots :
                        /\ inv[j].pc = "settled"
                        /\ \A k \in Slots : inv[k].pc = "settled" => k <= j
       IN inv' = [inv EXCEPT ![i] =
                    IF inv[i].mr.state = "threw"
                    THEN [inv[i] EXCEPT !.pc = "returned"]
                    ELSE MethodReturned(inv[i], Render(inv[latest].call, inv[i].now,
                                                 inv[i].mr.value))]
    /\ UNCHANGED <<config, hostSlots, listed, contacted>>

\* `await this.makeRequest(...)` resumes in the handler method: a rejection
\* leaves the method as it came, a value is rendered into the text
MethodResumes(i) ==
    /\ inv[i].pc = "settled"
    /\ inv' = [inv EXCEPT ![i] =
                 IF inv[i].mr.state = "threw"
                 THEN [inv[i] EXCEPT !.pc = "returned"]
                 ELSE MethodReturned(inv[i], Render(inv[i].call, inv[i].now, inv[i].mr.value))]
    /\ UNCHANGED <<config, hostSlots, listed, contacted>>

\* `return await this.handler(args)` resumes in the dispatcher: the text is
\* returned as the result, a rejection goes through the catch
Resume(i) ==
    /\ inv[i].pc = "returned"
    /\ inv' = [inv EXCEPT ![i] =
                 [inv[i] EXCEPT !.pc = "done",
                                !.out = IF inv[i].thrown # NoError
                                        THEN Raised(Catch(inv[i].thrown))
                                        ELSE Result(inv[i].text)]]
    /\ UNCHANGED <<config, hostSlots, listed, contacted>>

\* the invocation whose promise of makeRequest has settled as m on the
\* answer resp: the handler method is still suspended at its await
Settled(slot, resp, m) ==
    [slot EXCEPT !.pc = "settled", !.resp = resp,
                 !.mr = IF m.err # NoError
                        THEN [state |-> "threw", value |-> "", err |-> m.err]
                        ELSE [state |-> "returned", value |-> m.value, err |-> NoError],
                 !.thrown = m.err]

\* the promise of fetch settles: on a rejection the catch of makeRequest
\* wraps it and rejects the promise of makeRequest, a Response leaves
\* makeRequest waiting for its body (response.text() or response.json())
Respond(i) ==
    /\ inv[i].pc = "awaiting"
    /\ \E resp \in InputResponses :
          inv' = [inv EXCEPT ![i] =
                    IF resp.kind = "reject"
                    THEN Settled(inv[i], resp,
                                 [err |-> RequestFailed(resp.message), value |-> ""])
                    ELSE [inv[i] EXCEPT !.pc = "reading",
                                        !.resp = ResponseHead(resp.status)]]
    /\ UNCHANGED <<config, hostSlots, listed, contacted>>

\* the bodies that can follow the status of the Response, and the failure of
\* the body stream
Bodies(head) ==
    {r \in InputResponses : r.kind = "http" /\ r.status = head.status}
    \cup {BodyFailure(head.status, Terminated)}

\* the body of the Response arrives, or its stream fails: the promise of
\* makeRequest settles
ReadBody(i) ==
    /\ inv[i].pc = "reading"
    /\ \E resp \in Bodies(inv[i].resp) :
          inv' = [inv EXCEPT ![i] = Settled(inv[i], resp, MakeRequestSettled(resp))]
    /\ UNCHANGED <<config, hostSlots, listed, contacted>>

\* Discard with a timeout: an invocation still waiting for its answer is
\* given up
DiscardOnTimeout(i) ==
    /\ inv[i].pc \in {"awaiting", "reading", "done"}
    /\ inv' = [inv EXCEPT ![i] = IdleSlot]
    /\ UNCHANGED <<config, hostSlots, listed, contacted>>

\* the response has been sent: the invocation is discarded
Discard(i) ==
    /\ inv[i].pc = "done"
    /\ inv' = [inv EXCEPT ![i] = IdleSlot]
    /\ UNCHANGED <<config, hostSlots, listed, contacted>>

\* a ListTools request: the handler returns the catalogue literal
ListToolsRequest ==
    /\ listed' = ToolNames
    /\ UNCHANGED <<config, hostSlots, inv, contacted>>

Next ==
    \/ ListToolsRequest
    \/ \E i \in Slots :
          \/ Invoke(i) \/ Respond(i) \/ ReadBody(i)
          \/ MethodResumes(i) \/ Resume(i) \/ Discard(i)

Spec == Init /\ [][Next]_vars

SpecConcurrent == InitConcurrent /\ [][Next]_vars

\* the concurrent runs in which every request is answered: the queued
\* microtasks run, the promise of a pending fetch is eventually resolved or
\* rejected, and the body of a Response eventually arrives or fails
SpecSettling ==
    /\ InitConcurrent
    /\ [][Next]_vars
    /\ \A i \in Slots :
          /\ WF_vars(Respond(i)) /\ WF_vars(ReadBody(i))
          /\ WF_vars(MethodResumes(i)) /\ WF_vars(Resume(i))

(***************************************************************************)
(* Properties.                                                             *)
(***************************************************************************)
Range(seq) == {seq[j] : j \in DOMAIN seq}

\* some argument of the catalogue's required list is not in the bag
MissingRequired(call) ==
    \E key \in Required(call.name) : ~call.hasArgs \/ key \notin Keys(call.args)

\* the invocation sent a request and the remote API answered it
Answered(i) == inv[i].pc = "done" /\ inv[i].wire # <<>>

ErrorCodes == {"InvalidParams", "MethodNotFound", "InternalError"}

\* C1: with an API key configured, an invocation of a catalogue operation
\* whose bag lacks an argument of the catalogue's required list sends no
\* HTTP request.
C1_MissingRequiredSendsNothing ==
    \A i \in Slots :
        (/\ inv[i].pc # "idle"
         /\ config.apiKey # ""
         /\ inv[i].call.name \in Catalogue
         /\ MissingRequired(inv[i].call))
        => inv[i].wire = <<>>

\* C2: the dispatcher checks exactly the catalogue's required arguments, so
\* an invocation of a catalogue operation whose bag lacks one of them ends
\* in an InvalidParams error.
C2_MissingRequiredIsInvalidParams ==
    \A i \in Slots :
        (/\ inv[i].pc # "idle"
         /\ inv[i].call.name \in Catalogue
         /\ MissingRequired(inv[i].call))
        => /\ Checked(inv[i].call.name) = Required(inv[i].call.name)
           /\ inv[i].pc \in {"settled", "returned", "done"}
           /\ inv[i].pc = "done" =>
                 /\ inv[i].out.kind = "error"
                 /\ inv[i].out.error.code = "InvalidParams"

\* C3: an invocation of a name the catalogue does not have ends at once in a
\* MethodNotFound error and sends no HTTP request, whatever its arguments
\* and whether or not an API key is configured.
C3_UnknownNameIsMethodNotFound ==
    \A i \in Slots :
        (inv[i].pc # "idle" /\ inv[i].call.name \notin Catalogue)
        => /\ inv[i].pc = "done"
           /\ inv[i].out.kind = "error"
           /\ inv[i].out.error.cls = "McpError"
           /\ inv[i].out.error.code = "MethodNotFound"
           /\ inv[i].wire = <<>>

\* C3 witness: an unknown name was invoked with a non-empty bag and no key
C3_Witness ==
    \E i \in Slots :
        /\ inv[i].pc = "done"
        /\ inv[i].call.name \in UnknownNames
        /\ inv[i].call.args # <<>>
        /\ config.apiKey = ""
        /\ inv[i].out.error.code = "MethodNotFound"

\* C4: without an API key the server is constructed all the same, and every
\* invocation of a catalogue operation sends no HTTP request, never waits
\* for an answer, and ends in an error.
C4_NoKeyFailsWithoutRequest ==
    config.apiKey = "" =>
        /\ Constructed(config)
        /\ \A i \in Slots :
             (inv[i].pc # "idle" /\ inv[i].call.name \in Catalogue)
             => /\ inv[i].pc \in {"settled", "returned", "done"}
                /\ inv[i].pc = "done" => inv[i].out.kind = "error"
                /\ inv[i].out.kind # "result"
                /\ inv[i].wire = <<>>

\* C4 witness: without a key, a call that passes the argument check and the
\* handler was stopped by makeRequest
C4_Witness ==
    \E i \in Slots :
        /\ config.apiKey = ""
        /\ inv[i].pc = "done"
        /\ inv[i].call.name = "get_project"
        /\ inv[i].called
        /\ inv[i].out.error = KeyError

\* C5: on a success status makeRequest returns to the handler: the parsed
\* body when the body is JSON, an empty result when the body is empty, so a
\* delete answered 2xx with no body ends in its "deleted successfully" text.
C5_SuccessStatusReturns ==
    \A i \in Slots :
        (/\ Answered(i)
         /\ inv[i].resp.kind = "http"
         /\ Ok(inv[i].resp)
         /\ (IsJson(inv[i].resp.body) \/ inv[i].resp.body = EmptyBody))
        => /\ inv[i].mr.state = "returned"
           /\ IsJson(inv[i].resp.body) => inv[i].mr.value = inv[i].resp.body
           /\ inv[i].call.name \in DeleteTools =>
                 /\ inv[i].out.kind = "result"
                 /\ " deleted successfully!" \in Range(inv[i].out.content[1].text)

\* C6: a non-success status S with body text B ends the invocation in an
\* error whose message has S and B, after the one request it sent.
C6_ApiErrorCarriesStatusAndBody ==
    \A i \in Slots :
        (Answered(i) /\ inv[i].resp.kind = "http" /\ ~Ok(inv[i].resp))
        => /\ inv[i].out.kind = "error"
           /\ NumText(inv[i].resp.status) \in Range(inv[i].out.error.msg)
           /\ inv[i].resp.body \in Range(inv[i].out.error.msg)
           /\ Len(inv[i].wire) = 1

\* C6 witness: get_task answered 404 "Not found"
C6_Witness ==
    \E i \in Slots :
        /\ Answered(i)
        /\ inv[i].call.name = "get_task"
        /\ inv[i].resp = HttpResponse(404, NotFoundBody)
        /\ inv[i].out.error.msg = <<"Clockify API error (", "404", "): ", "Not found">>

\* the message of the error under a transport failure or a malformed body
Underlying(resp) ==
    IF resp.kind \in {"reject", "bodyfail"} THEN <<resp.message>>
    ELSE ParseError(resp.body).msg

\* the message msg ends with the pieces of text
EndsWith(msg, text) ==
    /\ Len(text) <= Len(msg)
    /\ SubSeq(msg, Len(msg) - Len(text) + 1, Len(msg)) = text

\* the fetch rejected, the body stream failed, or a success status came with
\* a body that is not JSON
TransportFailure(resp) ==
    \/ resp.kind \in {"reject", "bodyfail"}
    \/ resp.kind = "http" /\ Ok(resp) /\ ~IsJson(resp.body) /\ resp.body # EmptyBody

\* C7: a rejected fetch or a malformed response ends the invocation in an
\* InternalError whose message has the underlying error's message, after
\* the one request it sent.
C7_TransportErrorCarriesMessage ==
    \A i \in Slots :
        (Answered(i) /\ TransportFailure(inv[i].resp))
        => /\ inv[i].out.kind = "error"
           /\ inv[i].out.error.code = "InternalError"
           /\ EndsWith(inv[i].out.error.msg, Underlying(inv[i].resp))
           /\ Len(inv[i].wire) = 1

\* C7 witness: a create_project whose fetch rejected
C7_Witness ==
    \E i \in Slots :
        /\ Answered(i)
        /\ inv[i].call.name = "create_project"
        /\ inv[i].resp = Rejection("fetch failed")
        /\ inv[i].out.error.msg = <<"Request failed: ", "fetch failed">>

\* C8: a finished invocation has either a result with one text item and
\* isError false, or an McpError with one of the three codes; a thrown
\* McpError is raised as it is and any other thrown value as InternalError.
C8_OutcomeShape ==
    \A i \in Slots :
        inv[i].pc = "done" =>
            /\ \/ /\ inv[i].out.kind = "result"
                  /\ inv[i].thrown = NoError
                  /\ Len(inv[i].out.content) = 1
                  /\ inv[i].out.content[1].type = "text"
                  /\ inv[i].out.isError = FALSE
               \/ /\ inv[i].out.kind = "error"
                  /\ inv[i].thrown # NoError
                  /\ inv[i].out.error.cls = "McpError"
                  /\ inv[i].out.error.code \in ErrorCodes
            /\ inv[i].thrown.cls = "McpError" => inv[i].out.error = inv[i].thrown
            /\ inv[i].thrown.cls \notin {"", "McpError"} =>
                   /\ inv[i].out.error.code = "InternalError"
                   /\ \A piece \in Range(inv[i].thrown.msg) :
                          piece \in Range(inv[i].out.error.msg)
            /\ ~inv[i].out.isError

\* C8 witness: an McpError of makeRequest went through the catch unchanged
C8_Witness ==
    \E i \in Slots :
        /\ Answered(i)
        /\ inv[i].thrown = ApiError(404, NotFoundBody)
        /\ inv[i].out = Raised(ApiError(404, NotFoundBody))

\* C9: an invocation sends at most one HTTP request, exactly one when it
\* entered makeRequest with an API key, and none after a failure.
C9_AtMostOneRequest ==
    \A i \in Slots :
        /\ Len(inv[i].wire) <= 1
        /\ (inv[i].called /\ ~KeyMissing(config)) => Len(inv[i].wire) = 1
        /\ ~inv[i].called => inv[i].wire = <<>>

\* C9 witness: a mutating call that failed remotely, with its one request
C9_Witness ==
    \E i \in Slots :
        /\ Answered(i)
        /\ inv[i].call.name = "update_task"
        /\ inv[i].out.kind = "error"
        /\ Len(inv[i].wire) = 1
        /\ inv[i].wire[1].method = "PUT"

\* C10: two finished invocations of the same call have each sent their own
\* request, and each outcome is the one its own answer gives.
C10_NoMemory ==
    \A i, j \in Slots :
        (/\ i # j
         /\ inv[i].pc = "done" /\ inv[j].pc = "done"
         /\ inv[i].call = inv[j].call)
        => /\ Len(inv[i].wire) = Len(inv[j].wire)
           /\ inv[i].wire # <<>> =>
                 /\ inv[i].out = Complete(inv[i].call, inv[i].now, inv[i].resp).out
                 /\ inv[j].out = Complete(inv[j].call, inv[j].now, inv[j].resp).out
           /\ (inv[i].resp = inv[j].resp /\ inv[i].now = inv[j].now)
                 => inv[i].out = inv[j].out

\* C10 witness: delete_client twice with the same identifiers, the first
\* answered with success and the second with 404
C10_Witness ==
    \E i, j \in Slots :
        /\ i # j
        /\ Answered(i) /\ Answered(j)
        /\ inv[i].call.name = "delete_client"
        /\ inv[i].call = inv[j].call
        /\ inv[i].wire[1].method = "DELETE" /\ inv[j].wire[1].method = "DELETE"
        /\ inv[i].out.kind = "result"
        /\ inv[j].out = Raised(ApiError(404, NotFoundBody))

\* C11: the catalogue's names are pairwise distinct, a name is in the
\* catalogue exactly when the switch routes it, each routed invocation runs
\* the one handler method that no other catalogue name runs, and every
\* ListTools response is the same catalogue.
C11_CatalogueMatchesSwitch ==
    /\ Cardinality(Catalogue) = Len(ToolNames)
    /\ listed \in {<<>>, ToolNames}
    /\ \A i \in Slots :
          inv[i].pc # "idle" =>
             /\ inv[i].call.name \in Catalogue <=> inv[i].out.error.code # "MethodNotFound"
             /\ inv[i].handler # "" =>
                   /\ inv[i].call.name \in Catalogue
                   /\ \A other \in Catalogue :
                         HandlerOf(other) = inv[i].handler => other = inv[i].call.name
             /\ (inv[i].call.name \in Catalogue /\ ~CheckFails(inv[i].call))
                   => inv[i].handler # ""

\* C11 witness: after a listing, the last catalogue entry of the tag group
\* was invoked and ran its handler
C11_Witness ==
    /\ listed = ToolNames
    /\ \E i \in Slots :
          /\ inv[i].pc = "done"
          /\ inv[i].call.name = "get_tags"
          /\ inv[i].handler = "getTags"
          /\ inv[i].out.kind = "result"

\* the invocation is of create_time_entry or update_time_entry and its
\* request is on the wire
TimeEntryWritten(i) ==
    /\ inv[i].call.name \in {"create_time_entry", "update_time_entry"}
    /\ inv[i].wire # <<>>

\* C12: in the body of create_time_entry and update_time_entry a start or
\* end string that has "T" is the caller's, one that has not is the ISO
\* instant of its reparsing, so every start or end string sent has "T".
C12_SentDatesHaveT ==
    \A i \in Slots : \A key \in {"start", "end"} :
        LET given == Get(inv[i].call.args, key)
            sent == Get(inv[i].wire[1].body, key)
        IN (TimeEntryWritten(i) /\ given.t = "string") =>
              /\ HasT(given.s) => sent = given
              /\ ~HasT(given.s) =>
                    (Parsable(given.s) /\ sent = Str(ToISOString(given.s)))
              /\ sent.t = "string" /\ HasT(sent.s)

\* the arguments the handler of a query read takes into the path
PathIdentifiers(name) ==
    CASE name = "get_time_entries" -> {"workspaceId", "userId"}
      [] name = "get_tasks" -> {"workspaceId", "projectId"}
      [] OTHER -> {"workspaceId"}

\* the arguments of a call that are neither path identifiers nor null/undefined
QueryArguments(call) ==
    SelectSeq(call.args, LAMBDA p : /\ p.k \notin PathIdentifiers(call.name)
                                    /\ p.v.t \notin {"undefined", "null"})

\* the invocation is of a query read and its request is on the wire
QueryRead(i) == inv[i].call.name \in QueryTools /\ inv[i].wire # <<>>

\* the bag {workspaceId: "w1", archived: true, pageSize: 10}
ExampleBag ==
    <<[k |-> "workspaceId", v |-> Str("w1")], [k |-> "archived", v |-> Bool(TRUE)],
      [k |-> "pageSize", v |-> Num(10)]>>

\* get_projects with the example bag requests
\* /workspaces/w1/projects?archived=true&pageSize=10 of the primary base
ExampleUrl(i) ==
    (QueryRead(i) /\ inv[i].call.name = "get_projects" /\ inv[i].call.args = ExampleBag)
    => Url(inv[i].wire[1]) =
          <<PrimaryBase, "/workspaces/", "w1", "/projects", "?",
            "archived", "=", "true", "&", "pageSize", "=", "10">>

\* C13 as stated: the query string of a query read is exactly the arguments
\* that are neither path identifiers nor null/undefined, each as
\* key=String(value), in the order of the bag; without such an argument the
\* path has no "?".
C13_QueryIsStringOfValue ==
    \A i \in Slots :
        /\ ExampleUrl(i)
        /\ QueryRead(i) =>
              LET kept == QueryArguments(inv[i].call)
                  query == [j \in DOMAIN kept |-> [k |-> kept[j].k, v |-> ToStr(kept[j].v)]]
              IN /\ inv[i].wire[1].query = query
                 /\ kept = <<>> <=> "?" \notin Range(Url(inv[i].wire[1]))

\* C13 amended: the query string of a query read is exactly the arguments
\* that are neither path identifiers nor null/undefined, each as key= and
\* the form-urlencoded String(value) (":" as %3A, "," as %2C; letters, digits,
\* "-", "." unchanged), in the order of the bag, false and 0 kept; without
\* such an argument the path has no "?".
C13_QueryIsEncodedStringOfValue ==
    \A i \in Slots :
        /\ ExampleUrl(i)
        /\ QueryRead(i) =>
              LET kept == QueryArguments(inv[i].call)
                  query == [j \in DOMAIN kept |->
                              [k |-> kept[j].k, v |-> FormEncode(ToStr(kept[j].v))]]
              IN /\ inv[i].wire[1].query = query
                 /\ kept = <<>> <=> "?" \notin Range(Url(inv[i].wire[1]))

\* a get_time_entries request whose bag has pageSize 0 before an instant with
\* colons: both are in the query, in that order, the instant encoded
C13_Witness ==
    \E i \in Slots :
        /\ QueryRead(i) /\ inv[i].call.name = "get_time_entries"
        /\ Len(inv[i].wire[1].query) = 2
        /\ inv[i].wire[1].query[1] = [k |-> "pageSize", v |-> "0"]
        /\ inv[i].wire[1].query[2] = [k |-> "start", v |-> "2024-01-15T09%3A00%3A00Z"]

\* the invocation is of the named report and its request is on the wire
ReportSent(i, name) == inv[i].call.name = name /\ inv[i].wire # <<>>

\* C14: the detailedFilter.pageSize get_detailed_report sends is a number of
\* at most 1000: 1000 for a requested size above 1000, the requested size
\* when it is 1..1000, and 50 when none is given.
C14_PageSizeClamped ==
    \A i \in Slots :
        ReportSent(i, "get_detailed_report") =>
           LET given == Get(inv[i].call.args, "pageSize")
               sent == Get(inv[i].wire[1].body, "detailedFilter.pageSize")
           IN /\ sent.t = "number" /\ sent.n <= 1000
              /\ (given.t = "number" /\ given.n > 1000) => sent = Num(1000)
              /\ (given.t = "number" /\ given.n \in 1..1000) => sent = given
              /\ given.t = "undefined" => sent = Num(50)

\* a detailed report asked for with pageSize 5000 and sent with 1000
C14_Witness ==
    \E i \in Slots :
        /\ ReportSent(i, "get_detailed_report")
        /\ Get(inv[i].call.args, "pageSize") = Num(5000)
        /\ Get(inv[i].wire[1].body, "detailedFilter.pageSize") = Num(1000)

\* C15: the summaryFilter.groups get_summary_report sends is ["PROJECT"]
\* when the call has no groups, and the caller's array when it has one.
C15_GroupsDefault ==
    \A i \in Slots :
        ReportSent(i, "get_summary_report") =>
           LET given == Get(inv[i].call.args, "groups")
               sent == Get(inv[i].wire[1].body, "summaryFilter.groups")
           IN /\ given.t = "undefined" => sent = List("PROJECT")
              /\ given.t = "array" => sent = given

\* a summary report called without groups and sent with ["PROJECT"]
C15_Witness ==
    \E i \in Slots :
        /\ ReportSent(i, "get_summary_report")
        /\ Get(inv[i].call.args, "groups") = Undefined
        /\ Get(inv[i].wire[1].body, "summaryFilter.groups") = List("PROJECT")

\* C16: a request goes to the report-service base exactly when it is one of
\* get_detailed_report or get_summary_report, and the requests of all other
\* operations go to the primary base, whatever was invoked before.
C16_ReportsBaseOnlyForReports ==
    /\ contacted \subseteq {PrimaryBase, ReportsBase}
    /\ \A i \in Slots : \A j \in DOMAIN inv[i].wire :
          /\ inv[i].wire[j].base = ReportsBase <=> inv[i].call.name \in ReportTools
          /\ inv[i].call.name \notin ReportTools => inv[i].wire[j].base = PrimaryBase

\* a request of get_projects on the wire to the primary base after a request
\* has gone to the report service
C16_Witness ==
    /\ ReportsBase \in contacted
    /\ \E i \in Slots :
          /\ inv[i].call.name = "get_projects"
          /\ inv[i].wire # <<>>
          /\ inv[i].wire[1].base = PrimaryBase

\* C17: every request of get_time_entries and of stop_time_entry has the
\* per-user path /workspaces/{workspaceId}/user/{userId}/time-entries, also
\* for get_time_entries called without userId.
C17_PerUserPath ==
    \A i \in Slots : \A j \in DOMAIN inv[i].wire :
        inv[i].call.name \in {"get_time_entries", "stop_time_entry"} =>
           /\ Len(inv[i].wire[j].path) = 5
           /\ inv[i].wire[j].path[1] = "/workspaces/"
           /\ inv[i].wire[j].path[2] = ToStr(Get(inv[i].call.args, "workspaceId"))
           /\ inv[i].wire[j].path[3] = "/user/"
           /\ inv[i].wire[j].path[5] = "/time-entries"

\* the invocation is of stop_time_entry, passed the dispatcher's check and
\* found the API key
StopAccepted(i) ==
    /\ inv[i].pc # "idle"
    /\ inv[i].call.name = "stop_time_entry"
    /\ ~CheckFails(inv[i].call)
    /\ ~KeyMissing(config)

\* the one request of an accepted stop_time_entry: PATCH of the per-user
\* path, no query, and a body whose only field is end with the given value
StopRequest(i, end) ==
    /\ Len(inv[i].wire) = 1
    /\ inv[i].wire[1].method = "PATCH"
    /\ inv[i].wire[1].path =
          <<"/workspaces/", ToStr(Get(inv[i].call.args, "workspaceId")),
            "/user/", ToStr(Get(inv[i].call.args, "userId")), "/time-entries">>
    /\ inv[i].wire[1].query = <<>>
    /\ inv[i].wire[1].hasBody
    /\ inv[i].wire[1].body = <<[k |-> "end", v |-> end]>>

\* C18 as stated: stop_time_entry sends one PATCH whose body is the field
\* end alone, the caller's end whenever the call has one and the current
\* instant otherwise, with no other argument in the path or the body.
C18_StopSendsGivenEnd ==
    \A i \in Slots :
        StopAccepted(i) =>
           LET given == Get(inv[i].call.args, "end")
           IN StopRequest(i, IF given.t # "undefined" THEN given ELSE Str(inv[i].now))

\* C18 amended: stop_time_entry sends one PATCH whose body is the field end
\* alone, the caller's end when it is a non-empty string (a truthy value) and
\* otherwise, an empty end included, the current instant as an ISO-8601
\* string, with no other argument in the path or the body.
C18_StopSendsTruthyEnd ==
    \A i \in Slots :
        StopAccepted(i) =>
           LET given == Get(inv[i].call.args, "end")
           IN /\ StopRequest(i, IF Truthy(given) THEN given ELSE Str(inv[i].now))
              /\ ~Truthy(given) => (inv[i].now \in Clock /\ HasT(inv[i].now))

\* a stop_time_entry called with an empty end and a time entry identifier:
\* the body is the current instant alone
C18_Witness ==
    \E i \in Slots :
        /\ StopAccepted(i)
        /\ Get(inv[i].call.args, "end") = Str("")
        /\ Get(inv[i].call.args, "timeEntryId") = Str("e1")
        /\ inv[i].wire[1].body = <<[k |-> "end", v |-> Str("2024-01-15T10:00:00.000Z")]>>

\* C19: every request on the wire, to either base, has the API key of the
\* configuration in X-Api-Key, which is the key read at start, and
\* Content-Type application/json.
C19_EveryRequestCarriesKey ==
    /\ [](\A i \in Slots : \A j \in DOMAIN inv[i].wire :
            /\ inv[i].wire[j].apiKeyHeader = config.apiKey
            /\ inv[i].wire[j].apiKeyHeader # ""
            /\ inv[i].wire[j].contentType = "application/json")
    /\ [][config'.apiKey = config.apiKey]_vars

\* a report request on the wire to the report service with the key
C19_Witness ==
    \E i \in Slots :
        /\ inv[i].wire # <<>>
        /\ inv[i].wire[1].base = ReportsBase
        /\ inv[i].wire[1].apiKeyHeader = "secret"
        /\ inv[i].wire[1].contentType = "application/json"

\* C20: no step of any invocation, successful or failed, changes the
\* configuration or the host's capacity, and once no invocation is in
\* flight the dispatcher is as it was at startup.
C20_ConfigNeverChanges ==
    [][/\ config' = config
       /\ hostSlots' = hostSlots
       /\ (\A i \in Slots : inv'[i] = IdleSlot) => (config'.baseUrl = PrimaryBase)]_vars

\* a report invocation has failed, a request went to the report service, and
\* the configured base is the primary one
C20_Witness ==
    /\ config.baseUrl = PrimaryBase
    /\ ReportsBase \in contacted
    /\ \E i \in Slots :
          /\ inv[i].pc = "done"
          /\ inv[i].call.name \in ReportTools
          /\ inv[i].out.kind = "error"

\* C21: with several invocations in flight, whatever the order in which
\* their fetches settle, the request of each is the one its own name and
\* arguments give, and the outcome of each is the one the answer to its own
\* request gives.
C21_InvocationsIndependent ==
    \A i \in Slots :
        inv[i].pc # "idle" =>
           /\ inv[i].wire = Dispatch(config, inv[i].call, inv[i].now).wire
           /\ inv[i].pc \in {"awaiting", "reading"} => inv[i].wire # <<>>
           /\ inv[i].pc # "done" => inv[i].out = Pending
           /\ (inv[i].pc = "returned" /\ inv[i].wire # <<>>) =>
                 LET c == Complete(inv[i].call, inv[i].now, inv[i].resp)
                 IN /\ inv[i].thrown = c.thrown
                    /\ c.thrown = NoError => Result(inv[i].text) = c.out
           /\ (inv[i].pc = "done" /\ inv[i].wire # <<>>) =>
                 inv[i].out = Complete(inv[i].call, inv[i].now, inv[i].resp).out
           /\ \A j \in Slots \ {i} :
                 (/\ inv[j].pc = "done" /\ inv[i].pc = "done"
                  /\ inv[j].call = inv[i].call /\ inv[j].now = inv[i].now
                  /\ inv[j].resp = inv[i].resp)
                 => (inv[j].wire = inv[i].wire /\ inv[j].out = inv[i].out)

\* create_project and delete_client are in flight together with both
\* answers in, a success and a 404: the text of the one is rendered for its
\* own call and the other holds the error of its own answer
C21_Witness ==
    \E i, j \in Slots :
        /\ i # j
        /\ inv[i].pc = "returned"
        /\ inv[i].call.name = "create_project"
        /\ inv[i].wire # <<>>
        /\ inv[i].wire[1].method = "POST"
        /\ inv[i].resp = HttpResponse(200, EntityBody)
        /\ inv[i].thrown = NoError /\ inv[i].text # <<>>
        /\ inv[j].pc = "returned"
        /\ inv[j].call.name = "delete_client"
        /\ inv[j].wire # <<>>
        /\ inv[j].wire[1].method = "DELETE"
        /\ inv[j].thrown = ApiError(404, NotFoundBody)

\* the request of the invocation failed: the fetch rejected or the status
\* is not a success
RequestFailedRemotely(i) ==
    /\ Answered(i)
    /\ (inv[i].resp.kind = "reject" \/ ~Ok(inv[i].resp))

\* C22: makeRequest retries, so an invocation whose request failed has sent
\* it again.
C22_FailedRequestSentAgain ==
    \A i \in Slots : RequestFailedRemotely(i) => Len(inv[i].wire) >= 2


\* the create and replace operations, the deletes, and the reads by GET
WriteTools ==
    {"create_time_entry", "update_time_entry", "create_project", "update_project",
     "create_task", "update_task", "create_client", "update_client",
     "create_tag", "update_tag"}

ReadTools ==
    {"get_current_user", "get_workspaces", "get_workspace_users", "get_time_entries",
     "get_projects", "get_project", "get_tasks", "get_task", "get_clients", "get_tags"}

\* the arguments a create or replace operation takes into its path
WritePathIdentifiers(name) ==
    CASE name = "update_time_entry" -> {"workspaceId", "timeEntryId"}
      [] name = "update_project" -> {"workspaceId", "projectId"}
      [] name = "create_task" -> {"workspaceId", "projectId"}
      [] name = "update_task" -> {"workspaceId", "projectId", "taskId"}
      [] name = "update_client" -> {"workspaceId", "clientId"}
      [] name = "update_tag" -> {"workspaceId", "tagId"}
      [] OTHER -> {"workspaceId"}

\* the pair sent is the pair given, or a start or end of a time entry
\* replaced by the ISO instant of its reparsing
SentAsGiven(name, given, sent) ==
    \/ sent = given
    \/ /\ name \in {"create_time_entry", "update_time_entry"}
       /\ given.k \in {"start", "end"}
       /\ given.v.t = "string" /\ ~HasT(given.v.s)
       /\ sent = [k |-> given.k, v |-> Str(ToISOString(given.v.s))]

\* C23: the body of a create (POST) or replace (PUT) operation is the
\* argument bag without exactly its path identifiers, every other argument
\* in place and unchanged apart from the normalisation of start and end;
\* deletes and reads send no body.
C23_BodyIsRestOfBag ==
    \A i \in Slots : \A j \in DOMAIN inv[i].wire :
        LET name == inv[i].call.name
            w == inv[i].wire[j]
            kept == SelectSeq(inv[i].call.args,
                              LAMBDA p : p.k \notin WritePathIdentifiers(name))
        IN /\ name \in WriteTools =>
                 /\ w.hasBody
                 /\ w.method = (IF name \in {"create_time_entry", "create_project",
                                             "create_task", "create_client", "create_tag"}
                                THEN "POST" ELSE "PUT")
                 /\ Len(w.body) = Len(kept)
                 /\ \A n \in DOMAIN kept : SentAsGiven(name, kept[n], w.body[n])
           /\ name \in DeleteTools \cup ReadTools => (~w.hasBody /\ w.body = <<>>)
           /\ name \in DeleteTools => w.method = "DELETE"
           /\ name \in ReadTools => w.method = "GET"

\* update_project with a name and archived: the body is these two, without
\* workspaceId and projectId
C23_Witness ==
    \E i \in Slots :
        /\ Answered(i)
        /\ inv[i].call.name = "update_project"
        /\ Keys(inv[i].call.args) = {"workspaceId", "projectId", "name", "archived"}
        /\ inv[i].wire[1].body =
              <<[k |-> "name", v |-> Str("n1")], [k |-> "archived", v |-> Bool(FALSE)]>>


\* the list filters of the reports and their optional fields passed through
ListFilters == {"users", "clients", "projects", "tasks", "tags"}

PassedThrough(name) ==
    IF name = "get_detailed_report"
    THEN {"billable", "description", "withoutDescription", "customFieldIds"}
    ELSE {"billable"}

\* C24: in the payload of a report every list filter of the call is under
\* {ids: ...}, every optional field the call has not is absent, no field is
\* undefined, and workspaceId is not in it.
C24_ReportPayloadStripped ==
    \A i \in Slots : \A j \in DOMAIN inv[i].wire :
        inv[i].call.name \in ReportTools =>
           LET args == inv[i].call.args
               body == inv[i].wire[j].body
           IN /\ inv[i].wire[j].hasBody
              /\ \A f \in ListFilters :
                    /\ Get(args, f).t = "array" => Get(body, f \o ".ids") = Get(args, f)
                    /\ f \notin Keys(args) => (f \o ".ids") \notin Keys(body)
                    /\ f \notin Keys(body)
              /\ \A f \in PassedThrough(inv[i].call.name) :
                    /\ f \in Keys(args) => Get(body, f) = Get(args, f)
                    /\ f \notin Keys(args) => f \notin Keys(body)
              /\ \A n \in DOMAIN body : body[n].v.t # "undefined"
              /\ "workspaceId" \notin Keys(body)

\* a detailed report called with a users list and without billable: the
\* payload has users.ids and neither billable nor workspaceId
C24_Witness ==
    \E i \in Slots :
        /\ ReportSent(i, "get_detailed_report")
        /\ Get(inv[i].call.args, "workspaceId") = Str("w1")
        /\ Get(inv[i].call.args, "users") = List("u1,u2")
        /\ "billable" \notin Keys(inv[i].call.args)
        /\ Get(inv[i].wire[1].body, "users.ids") = List("u1,u2")
        /\ Keys(inv[i].wire[1].body) \cap {"billable", "workspaceId", "clients.ids"} = {}


\* C25: when every fetch settles and every response body is delivered or
\* fails, every invocation that has begun comes to its end with one outcome,
\* a result or an error, which then stays as it is; no step gives up an
\* invocation that is waiting for its fetch or for the body.
C25_EveryInvocationCompletes ==
    /\ \A i \in Slots :
          (inv[i].pc \in {"awaiting", "reading", "settled", "returned"})
             ~> (inv[i].pc = "done" /\ inv[i].out.kind \in {"result", "error"})
    /\ [](\A i \in Slots :
             /\ inv[i].pc = "done" => inv[i].out.kind \in {"result", "error"}
             /\ inv[i].pc # "done" => inv[i].out = Pending)
    /\ [][\A i \in Slots :
             /\ inv[i].pc = "awaiting" => inv'[i].pc \in {"awaiting", "reading", "settled"}
             /\ inv[i].pc = "reading" => inv'[i].pc \in {"reading", "settled"}
             /\ inv[i].pc = "settled" => inv'[i].pc \in {"settled", "returned"}
             /\ inv[i].pc = "returned" => inv'[i].pc \in {"returned", "done"}
             /\ (inv[i].pc = "done" /\ inv'[i].pc = "done") => inv'[i].out = inv[i].out]_vars

\* one invocation has come to its end with an error after a rejected fetch
\* while another is still awaiting its own
C25_Witness ==
    \E i, j \in Slots :
        /\ inv[i].pc = "done" /\ inv[i].resp.kind = "reject"
        /\ inv[i].out.kind = "error"
        /\ inv[j].pc = "awaiting"


\* the text of the finished report invocation i
ReportText(i) == inv[i].out.content[1].text

\* the report invocation i got a success status with a JSON object or array
ReportAnswered(i) ==
    /\ Answered(i)
    /\ inv[i].call.name \in ReportTools
    /\ inv[i].resp.kind = "http" /\ Ok(inv[i].resp)
    /\ inv[i].resp.body \in {ReportBody, EmptyTotalsBody, BareBody, EntityBody, ArrayBody}

\* C26: the text of a report shows the totalTime of the first element of
\* totals, "0:00:00" when totals is absent or empty, and the number of time
\* entries (detailed) or of groups (summary), 0 when the array is absent;
\* the invocation is a success in each of these cases.
C26_ReportTotalsDefault ==
    \A i \in Slots :
        ReportAnswered(i) =>
           LET body == inv[i].resp.body
               count == IF body = ReportBody THEN "1" ELSE "0"
           IN /\ inv[i].out.kind = "result" /\ ~inv[i].out.isError
              /\ ReportText(i)[4] = "Total Duration: "
              /\ ReportText(i)[5] = (IF body = ReportBody THEN "PT2H" ELSE "0:00:00")
              /\ inv[i].call.name = "get_detailed_report" =>
                    (ReportText(i)[2] = "Total Entries: " /\ ReportText(i)[3] = count)
              /\ inv[i].call.name = "get_summary_report" =>
                    (ReportText(i)[10] = "Group Count: " /\ ReportText(i)[11] = count)

\* a summary report answered with an empty totals array and no groupOne:
\* a result with "0:00:00" and a group count of 0
C26_Witness ==
    \E i \in Slots :
        /\ ReportAnswered(i)
        /\ inv[i].call.name = "get_summary_report"
        /\ inv[i].resp.body = EmptyTotalsBody
        /\ inv[i].out.kind = "result"
        /\ ReportText(i)[5] = "0:00:00"
        /\ ReportText(i)[11] = "0"


\* the operations that change something at the remote API
MutatingTools == WriteTools \cup DeleteTools \cup {"stop_time_entry"}

\* C27: a mutating invocation that ends in an error was not answered with a
\* success status: no write the remote API accepted is reported as failed.
C27_ErrorMeansNotAccepted ==
    \A i \in Slots :
        (/\ inv[i].pc = "done"
         /\ inv[i].call.name \in MutatingTools
         /\ inv[i].out.kind = "error")
        => ~(inv[i].wire # <<>> /\ inv[i].resp.kind = "http" /\ Ok(inv[i].resp))


\* the call has a start or end string without "T" that is not a date
HasUnparsableDate(call) ==
    \E key \in {"start", "end"} :
        LET given == Get(call.args, key)
        IN given.t = "string" /\ ~HasT(given.s) /\ ~Parsable(given.s)

\* C28: create_time_entry and update_time_entry given a start or end string
\* without "T" that cannot be parsed end in the InternalError of the
\* dispatcher's wrapper and send nothing.
C28_UnparsableDateSendsNothing ==
    \A i \in Slots :
        (/\ inv[i].pc # "idle"
         /\ inv[i].call.name \in {"create_time_entry", "update_time_entry"}
         /\ ~CheckFails(inv[i].call)
         /\ HasUnparsableDate(inv[i].call))
        => /\ inv[i].pc \in {"settled", "returned", "done"}
           /\ inv[i].wire = <<>>
           /\ inv[i].pc = "done" =>
                 /\ inv[i].out.kind = "error"
                 /\ inv[i].out.error.code = "InternalError"
                 /\ inv[i].out.error.msg[1] = "Tool execution failed: "


\* C29: the name is matched first, then the dispatcher's check of the
\* arguments, then the API key, then the network: without an API key an
\* unknown name is MethodNotFound and a failed check is the check's error,
\* the key error comes only to calls that pass both, a request only to calls
\* that pass all three, and the key error has the code of the check's error.
C29_CheckOrder ==
    \A i \in Slots :
        inv[i].pc # "idle" =>
           LET call == inv[i].call
           IN /\ call.name \notin Catalogue => inv[i].out = Raised(UnknownTool(call.name))
              /\ (call.name \in Catalogue /\ CheckFails(call)) =>
                    /\ inv[i].out = Raised(CheckError(call.name))
                    /\ inv[i].out.error.code = "InvalidParams"
                    /\ inv[i].out.error # KeyError
              /\ inv[i].out.error = KeyError =>
                    /\ call.name \in Catalogue /\ ~CheckFails(call)
                    /\ KeyMissing(config)
                    /\ inv[i].called /\ inv[i].wire = <<>>
                    /\ KeyError.code = "InvalidParams"
              /\ inv[i].wire # <<>> =>
                    (call.name \in Catalogue /\ ~CheckFails(call) /\ ~KeyMissing(config))

\* without an API key, get_project called without projectId ends in the
\* check's error
C29_Witness ==
    /\ KeyMissing(config)
    /\ \E i \in Slots :
          /\ inv[i].pc = "done"
          /\ inv[i].call.name = "get_project"
          /\ Keys(inv[i].call.args) = {"workspaceId"}
          /\ Get(inv[i].call.args, "workspaceId") = Str("w1")
          /\ inv[i].out = Raised(CheckError("get_project"))
          /\ inv[i].out.error.code = KeyError.code


\* the end of the body the invocation sent
SentEnd(i) == Get(inv[i].wire[1].body, "end")

\* C30 as stated: stop_time_entry sends every end string of the caller as
\* given, without the normalisation of create_time_entry and
\* update_time_entry.
C30_StopSendsEndAsGiven ==
    \A i \in Slots :
        (StopAccepted(i) /\ Get(inv[i].call.args, "end").t = "string")
        => SentEnd(i) = Get(inv[i].call.args, "end")

\* C30 amended: stop_time_entry sends every non-empty end string of the
\* caller as given, a date-only or unparsable one included, where
\* create_time_entry and update_time_entry send the ISO instant of a
\* date-only end; an empty end is replaced by the current instant.
C30_StopSendsNonEmptyEndAsGiven ==
    \A i \in Slots :
        LET given == Get(inv[i].call.args, "end")
        IN /\ (StopAccepted(i) /\ given.t = "string" /\ given.s # "")
                 => SentEnd(i) = given
           /\ (StopAccepted(i) /\ given = Str("")) => SentEnd(i) = Str(inv[i].now)
           /\ (TimeEntryWritten(i) /\ given = Str(DateOnly))
                 => (SentEnd(i) = Str(ToISOString(DateOnly)) /\ SentEnd(i) # given)

\* a stop_time_entry called with a date-only end and sent with it
C30_Witness ==
    \E i \in Slots :
        /\ StopAccepted(i)
        /\ Get(inv[i].call.args, "end") = Str(DateOnly)
        /\ SentEnd(i) = Str("2024-01-15")
        /\ ~HasT(SentEnd(i).s)

====
